---------------------------- MODULE Spec2Model ----------------------------
(***************************************************************************)
(* The enrichment pipeline of the attendee dashboard:                      *)
(*   website/app/api/attendees/route.ts  (POST, startLinkedInScraping,     *)
(*                                        startOpenAIScoring)              *)
(*   lib/linkedinScraper.ts              (scrapeLinkedInProfile,           *)
(*                                        scrapeMultipleProfiles)          *)
(*   lib/openaiScorer.ts                 (scoreCandidate,                  *)
(*                                        scoreMultipleCandidatesParallel) *)
(*   lib/dataStore.ts                    (DataStore)                       *)
(*                                                                         *)
(* One action is one macrotask of the Node.js event loop: the synchronous  *)
(* code of a handler together with every promise continuation that is      *)
(* already runnable when it ends.  The suspension points are the provider  *)
(* calls (axios.get, client.chat.completions.create) and the one-second    *)
(* timer between two profile requests.                                     *)
(*                                                                         *)
(* JavaScript objects have identity.  Every POST builds a new StoredData   *)
(* object; `heap` holds the objects built so far and dataStore.data is a   *)
(* reference (an index into heap).                                         *)
(***************************************************************************)
EXTENDS Integers, Sequences, FiniteSets, TLC

\* ------------------------------------------------------------------ bounds
MaxPosts == 2          \* ingestion requests in one behaviour
MaxAttendees == 1      \* attendees in one request body, the scenarios apart
MaxProfiles == 25      \* profiles handed to one score run of ScorerSpec
MaxTimestamp == 2      \* the latest Date.now() a file of temp/ is named after
MaxRetryBound == 4     \* the largest maxRetries retryFailedScrape is called with

\* --------------------------------------------------------- program constants
MAX_CONCURRENT == 10   \* route.ts: const MAX_CONCURRENT = 10
MinProfileText == 50   \* openaiScorer.ts: profileText.length < 50

NULL == "null"         \* JavaScript null / undefined

\* the values of attendee.linkedin a request can carry: absent, a non-empty
\* string that is no LinkedIn URL, and two LinkedIn profile URLs
LinkedinValues == {"", "https://x.com/a", "linkedin.com/in/a", "linkedin.com/in/b"}

\* the profile URL of the k-th attendee of a large batch
ScorerUrl(k) == "linkedin.com/in/" \o ToString(k)

ScorerUrls == {ScorerUrl(k) : k \in 1..MaxProfiles}

\* url.includes('linkedin.com')
IsLinkedInUrl(url) == url \in {"linkedin.com/in/a", "linkedin.com/in/b"} \cup ScorerUrls

\* JavaScript truthiness of a string
Truthy(str) == str # "" /\ str # NULL

\* what the profile provider can answer with: a profile with enough text to
\* score and one without (no headline, about, experience, ...)
Profiles == {"rich", "bare"}

\* formatLinkedInProfile(data).length
formatLinkedInProfile(p) == IF p = "rich" THEN 60 ELSE 0

EventUrls == {"https://lu.ma/e1"}

VARIABLES
    heap,        \* the StoredData objects built so far, by reference
    dataStore,   \* the DataStore singleton: data (a reference), the two flags
    env,         \* process.env: which API keys are configured
    cache,       \* linkedinCache: url -> profile or NULL
    scrape,      \* the activation of startLinkedInScraping / scrapeMultipleProfiles
    scoring,     \* the activation of startOpenAIScoring / scoreMultipleCandidatesParallel
    calls,       \* number of requests sent to the profile provider, per url
    response,    \* the response of the last POST
    posts,       \* number of POST requests received
    temp,        \* the files temp/attendees_<timestamp>.json on disk
    retry        \* the activation of retryFailedScrape

vars == <<heap, dataStore, env, cache, scrape, scoring, calls, response, posts,
          temp, retry>>

Refs == 0..MaxPosts

Min(a, b) == IF a < b THEN a ELSE b

SeqUpTo(S, n) == UNION {[1..k -> S] : k \in 0..n}

\* ---------------------------------------------------------------- DataStore

\* DataStore constructor / clear(): the empty StoredData
EmptyData ==
    [attendees |-> <<>>,
     eventUrl |-> "",
     count |-> 0,
     scrapingProgress |-> [total |-> 0, completed |-> 0, pending |-> 0, failed |-> 0],
     scoringProgress |-> [total |-> 0, completed |-> 0, pending |-> 0, failed |-> 0,
                          skipped |-> 0]]

\* dataStore.getData(): the object the store references
getData(s) == s.heap[s.dataStore.data]

\* dataStore.setData(data): the store references the object passed
setData(s, ref) == [s EXCEPT !.dataStore.data = ref]

\* no activation of startLinkedInScraping
NoScrape ==
    [phase |-> "none", ref |-> 0, linkedinUrls |-> <<>>, validUrls |-> <<>>, i |-> 0]

\* no activation of retryFailedScrape
NoRetry ==
    [phase |-> "none", url |-> "", maxRetries |-> 0, attempt |-> 0,
     lastError |-> "", fetches |-> 0, delay |-> 0,
     result |-> [url |-> "", success |-> FALSE, data |-> NULL, error |-> NULL]]

\* no activation of startOpenAIScoring
NoScoring ==
    [phase |-> "none", ref |-> 0, attendeesToScore |-> <<>>, i |-> 0, inflight |-> {}]

\* ------------------------------------------------------------ Fetch Stage

\* the first element of linkedinUrls whose url is `url` (Array.prototype.find),
\* 0 when there is none
FindUrlItem(linkedinUrls, url) ==
    LET hits == {k \in 1..Len(linkedinUrls) : linkedinUrls[k].url = url}
    IN IF hits = {} THEN 0 ELSE CHOOSE k \in hits : \A j \in hits : k <= j

\* onScrapeProgress with the decrement of pending left out on the failure path
onScrapeProgress_KeepsPending(s, lastResult) ==
    LET k == FindUrlItem(s.scrape.linkedinUrls, lastResult.url)
        ref == s.dataStore.data
    IN IF k = 0 THEN s
       ELSE LET index == s.scrape.linkedinUrls[k].index IN
            IF index > Len(getData(s).attendees)
            THEN [s EXCEPT !.scrape.phase = "threw"]
            ELSE IF lastResult.success /\ lastResult.data # NULL
            THEN [s EXCEPT !.heap[ref].attendees[index].linkedinData = lastResult.data,
                           !.heap[ref].attendees[index].scrapingStatus = "completed",
                           !.heap[ref].scrapingProgress.completed = @ + 1,
                           !.heap[ref].scrapingProgress.pending = @ - 1]
            ELSE [s EXCEPT !.heap[ref].attendees[index].scrapingStatus = "failed",
                           !.heap[ref].attendees[index].scrapingError = lastResult.error,
                           !.heap[ref].scrapingProgress.failed = @ + 1]

\* onScrapeProgress that returns once the attendee is updated, the progress
\* counters left as they are
onScrapeProgress_RecordOnly(s, lastResult) ==
    LET k == FindUrlItem(s.scrape.linkedinUrls, lastResult.url)
        ref == s.dataStore.data
    IN IF k = 0 THEN s
       ELSE LET index == s.scrape.linkedinUrls[k].index IN
            IF index > Len(getData(s).attendees)
            THEN [s EXCEPT !.scrape.phase = "threw"]
            ELSE IF lastResult.success /\ lastResult.data # NULL
            THEN [s EXCEPT !.heap[ref].attendees[index].linkedinData = lastResult.data,
                           !.heap[ref].attendees[index].scrapingStatus = "completed"]
            ELSE [s EXCEPT !.heap[ref].attendees[index].scrapingStatus = "failed",
                           !.heap[ref].attendees[index].scrapingError = lastResult.error]

\* the onProgress callback startLinkedInScraping passes to scrapeMultipleProfiles.
\* A TypeError (attendee undefined) leaves phase "threw" and changes nothing else.
onScrapeProgress(s, lastResult) ==
    LET k == FindUrlItem(s.scrape.linkedinUrls, lastResult.url)
        ref == s.dataStore.data
        currentData == getData(s)
    IN IF k = 0 THEN s
       ELSE LET index == s.scrape.linkedinUrls[k].index IN
            IF index > Len(currentData.attendees)
            THEN [s EXCEPT !.scrape.phase = "threw"]
            ELSE IF lastResult.success /\ lastResult.data # NULL
            THEN setData(
                   [s EXCEPT !.heap[ref].attendees[index].linkedinData = lastResult.data,
                             !.heap[ref].attendees[index].scrapingStatus = "completed",
                             !.heap[ref].scrapingProgress.completed = @ + 1,
                             !.heap[ref].scrapingProgress.pending = @ - 1], ref)
            ELSE setData(
                   [s EXCEPT !.heap[ref].attendees[index].scrapingStatus = "failed",
                             !.heap[ref].attendees[index].scrapingError =
                                 IF Truthy(lastResult.error) THEN lastResult.error
                                 ELSE "Unknown error",
                             !.heap[ref].scrapingProgress.failed = @ + 1,
                             !.heap[ref].scrapingProgress.pending = @ - 1], ref)

\* ------------------------------------------------------------ Score Stage

\* the elements of a set of indices in ascending order (forEach / filter order)
RECURSIVE Ascending(_)
Ascending(S) ==
    IF S = {} THEN <<>>
    ELSE LET m == CHOOSE x \in S : \A y \in S : x <= y
         IN <<m>> \o Ascending(S \ {m})

\* scoreCandidate up to its provider call: TRUE when the call is made, FALSE when
\* it returns a failure before (no client, or too little profile text)
scoreCandidateCalls(s, profileData) ==
    /\ s.env.OPENAI_API_KEY
    /\ ~(formatLinkedInProfile(profileData) < MinProfileText)

\* the ScoringResult scoreCandidate returns without calling the provider
scoreCandidateEarly(s, profileData) ==
    IF ~s.env.OPENAI_API_KEY
    THEN [success |-> FALSE, evaluation |-> NULL, overall_score |-> 0,
          error |-> "OpenAI API key not configured"]
    ELSE [success |-> FALSE, evaluation |-> NULL, overall_score |-> 0,
          error |-> "Insufficient profile data to score"]

\* what response.choices[0]?.message?.content can be: no content, text that is
\* no JSON, a JSON object without the required fields, a full evaluation
ProviderContents == {"", "not json", "{}", "{overall_score: 70, ...}"}

\* scoreCandidate after the provider call has returned `content`: the
\* ScoringResult.  evaluation is the parsed object (NULL when there is none),
\* overall_score its field of that name (0 when it has none)
scoreCandidateReturn(content) ==
    IF content = ""
    THEN [success |-> FALSE, evaluation |-> NULL, overall_score |-> 0,
          error |-> "No response from OpenAI"]
    ELSE IF content = "not json"
    THEN [success |-> FALSE, evaluation |-> NULL, overall_score |-> 0,
          error |-> "Unexpected token o in JSON at position 1"]
    ELSE IF content = "{}"
    THEN [success |-> TRUE, evaluation |-> "object", overall_score |-> 0,
          error |-> NULL]
    ELSE [success |-> TRUE, evaluation |-> "object", overall_score |-> 70,
          error |-> NULL]

\* onScoreProgress with the position in the profiles array taken for the
\* attendee's index
onScoreProgress_ByPosition(s, pos, result) ==
    LET own == s.scoring.ref
        ref == s.dataStore.data
    IN IF result.success /\ result.evaluation # NULL
       THEN [s EXCEPT !.heap[own].attendees[pos].overall_score = result.overall_score,
                      !.heap[own].attendees[pos].scoringStatus = "completed",
                      !.heap[ref].scoringProgress.completed = @ + 1,
                      !.heap[ref].scoringProgress.pending = @ - 1]
       ELSE [s EXCEPT !.heap[own].attendees[pos].scoringStatus = "failed",
                      !.heap[own].attendees[pos].scoringError = result.error,
                      !.heap[ref].scoringProgress.failed = @ + 1,
                      !.heap[ref].scoringProgress.pending = @ - 1]

\* onScoreProgress that stores the snapshot its run started with instead of
\* the one it has just read from the store
onScoreProgress_StoresOwn(s, pos, result) ==
    LET item == s.scoring.attendeesToScore[pos]
        own == s.scoring.ref
        ref == s.dataStore.data
    IN IF result.success /\ result.evaluation # NULL
       THEN setData(
              [s EXCEPT !.heap[own].attendees[item.index].overall_score = result.overall_score,
                        !.heap[own].attendees[item.index].scoringStatus = "completed",
                        !.heap[ref].scoringProgress.completed = @ + 1,
                        !.heap[ref].scoringProgress.pending = @ - 1], own)
       ELSE setData(
              [s EXCEPT !.heap[own].attendees[item.index].scoringStatus = "failed",
                        !.heap[own].attendees[item.index].scoringError =
                            IF Truthy(result.error) THEN result.error
                            ELSE "Unknown scoring error",
                        !.heap[ref].scoringProgress.failed = @ + 1,
                        !.heap[ref].scoringProgress.pending = @ - 1], own)

\* onScoreProgress that records a failure without its diagnostic
onScoreProgress_NoError(s, pos, result) ==
    LET item == s.scoring.attendeesToScore[pos]
        own == s.scoring.ref
        ref == s.dataStore.data
    IN IF result.success /\ result.evaluation # NULL
       THEN setData(
              [s EXCEPT !.heap[own].attendees[item.index].overall_score = result.overall_score,
                        !.heap[own].attendees[item.index].scoringStatus = "completed",
                        !.heap[ref].scoringProgress.completed = @ + 1,
                        !.heap[ref].scoringProgress.pending = @ - 1], ref)
       ELSE setData(
              [s EXCEPT !.heap[own].attendees[item.index].scoringStatus = "failed",
                        !.heap[ref].scoringProgress.failed = @ + 1,
                        !.heap[ref].scoringProgress.pending = @ - 1], ref)

\* the onProgress callback startOpenAIScoring passes to
\* scoreMultipleCandidatesParallel, for the profile at position pos.  `attendee`
\* is the object captured when the run started; the counters are those of the
\* object the store references now.
onScoreProgress(s, pos, result) ==
    LET item == s.scoring.attendeesToScore[pos]
        own == s.scoring.ref
        ref == s.dataStore.data
    IN IF result.success /\ result.evaluation # NULL
       THEN setData(
              [s EXCEPT !.heap[own].attendees[item.index].overall_score = result.overall_score,
                        !.heap[own].attendees[item.index].scoringStatus = "completed",
                        !.heap[ref].scoringProgress.completed = @ + 1,
                        !.heap[ref].scoringProgress.pending = @ - 1], ref)
       ELSE setData(
              [s EXCEPT !.heap[own].attendees[item.index].scoringStatus = "failed",
                        !.heap[own].attendees[item.index].scoringError =
                            IF Truthy(result.error) THEN result.error
                            ELSE "Unknown scoring error",
                        !.heap[ref].scoringProgress.failed = @ + 1,
                        !.heap[ref].scoringProgress.pending = @ - 1], ref)

\* ScoreEarly without the callbacks: the results scoreCandidate returns
\* without a provider call are not reported
ScoreEarly_Unreported(s, positions) == s

\* the callbacks of the profiles of a batch that scoreCandidate answers without a
\* provider call, in batch order
RECURSIVE ScoreEarly(_, _)
ScoreEarly(s, positions) ==
    IF positions = <<>> THEN s
    ELSE ScoreEarly(
           onScoreProgress(s, Head(positions),
               scoreCandidateEarly(s, s.scoring.attendeesToScore[Head(positions)].data)),
           Tail(positions))

\* startOpenAIScoring after scoreMultipleCandidatesParallel has returned; the
\* activation and its locals are gone
ScoreReturn(s) ==
    [s EXCEPT !.scoring = [NoScoring EXCEPT !.phase = "done", !.ref = s.scoring.ref],
              !.dataStore.isScoringInProgress = FALSE]

\* scoreMultipleCandidatesParallel from the batch that starts at scoring.i: the
\* batch is dispatched; a batch none of whose profiles reaches the provider is
\* over at once and the next one follows
RECURSIVE scoreMultipleCandidatesParallel(_, _)

\* scoreMultipleCandidatesParallel with every profile dispatched at once
scoreMultipleCandidatesParallel_Unbounded(s, maxConcurrent) ==
    LET profiles == s.scoring.attendeesToScore
        i == s.scoring.i
    IN IF i > Len(profiles) THEN ScoreReturn(s)
       ELSE LET batch == i..Len(profiles)
                sent == {k \in batch : scoreCandidateCalls(s, profiles[k].data)}
                s1 == ScoreEarly(s, Ascending(batch \ sent))
            IN IF sent = {}
               THEN ScoreReturn(s1)
               ELSE [s1 EXCEPT !.scoring.phase = "await", !.scoring.inflight = sent]

\* scoreMultipleCandidatesParallel with the slice one element short
scoreMultipleCandidatesParallel_ShortBatch(s, maxConcurrent) ==
    LET profiles == s.scoring.attendeesToScore
        i == s.scoring.i
    IN IF i > Len(profiles) THEN ScoreReturn(s)
       ELSE LET batch == i..Min(i + maxConcurrent - 2, Len(profiles))
                sent == {k \in batch : scoreCandidateCalls(s, profiles[k].data)}
                s1 == ScoreEarly(s, Ascending(batch \ sent))
            IN IF sent = {}
               THEN scoreMultipleCandidatesParallel(
                        [s1 EXCEPT !.scoring.i = i + maxConcurrent], maxConcurrent)
               ELSE [s1 EXCEPT !.scoring.phase = "await", !.scoring.inflight = sent]

scoreMultipleCandidatesParallel(s, maxConcurrent) ==
    LET profiles == s.scoring.attendeesToScore
        i == s.scoring.i
    IN IF i > Len(profiles) THEN ScoreReturn(s)
       ELSE LET batch == i..Min(i + maxConcurrent - 1, Len(profiles))
                sent == {k \in batch : scoreCandidateCalls(s, profiles[k].data)}
                s1 == ScoreEarly(s, Ascending(batch \ sent))
            IN IF sent = {}
               THEN scoreMultipleCandidatesParallel(
                        [s1 EXCEPT !.scoring.i = i + maxConcurrent], maxConcurrent)
               ELSE [s1 EXCEPT !.scoring.phase = "await", !.scoring.inflight = sent]

\* scoreCandidate returns for the profile at position pos: the callback, and once
\* every promise of the batch has resolved (Promise.all) the loop goes on
ScoreDeliver(s, pos, result) ==
    LET s1 == onScoreProgress(s, pos, result)
        s2 == [s1 EXCEPT !.scoring.inflight = @ \ {pos}]
    IN IF s2.scoring.inflight = {}
       THEN scoreMultipleCandidatesParallel(
                [s2 EXCEPT !.scoring.i = @ + MAX_CONCURRENT], MAX_CONCURRENT)
       ELSE s2

\* attendee is pushed to attendeesToScore
Eligible(attendee) ==
    /\ attendee.scrapingStatus = "completed"
    /\ attendee.linkedinData # NULL
    /\ attendee.scoringStatus = "pending"

\* attendee is marked skipped by the partition
Ineligible(attendee) ==
    /\ attendee.scrapingStatus # "completed"
    /\ attendee.scoringStatus = "pending"

\* startOpenAIScoring without the test of the API key: the partition and the
\* scorer run, and scoreCandidate finds no client
startOpenAIScoring_NoKeyCheck(s) ==
    LET ref == s.dataStore.data
        data == getData(s)
        n == Len(data.attendees)
        toScore == {k \in 1..n : Eligible(data.attendees[k])}
        toSkip == {k \in 1..n : Ineligible(data.attendees[k])}
        attendeesToScore ==
            [j \in 1..Cardinality(toScore) |->
                [index |-> Ascending(toScore)[j],
                 data |-> data.attendees[Ascending(toScore)[j]].linkedinData]]
        s1 == [s EXCEPT !.heap[ref].attendees =
                            [k \in 1..n |->
                                IF k \in toSkip
                                THEN [data.attendees[k] EXCEPT !.scoringStatus = "skipped"]
                                ELSE data.attendees[k]],
                        !.heap[ref].scoringProgress.skipped = @ + Cardinality(toSkip),
                        !.heap[ref].scoringProgress.pending = @ - Cardinality(toSkip),
                        !.scoring = [NoScoring EXCEPT
                                       !.ref = ref,
                                       !.attendeesToScore = attendeesToScore,
                                       !.i = 1]]
    IN IF toScore = {}
       THEN [s1 EXCEPT !.scoring = [NoScoring EXCEPT !.phase = "noeligible", !.ref = ref]]
       ELSE scoreMultipleCandidatesParallel(s1, MAX_CONCURRENT)

\* startOpenAIScoring up to its first suspension
startOpenAIScoring(s) ==
    LET ref == s.dataStore.data
        data == getData(s)
        n == Len(data.attendees)
    IN IF ~s.env.OPENAI_API_KEY
       THEN setData(
              [s EXCEPT !.heap[ref].attendees =
                            [k \in 1..n |->
                                IF data.attendees[k].scoringStatus = "pending"
                                THEN [data.attendees[k] EXCEPT
                                        !.scoringStatus = "skipped",
                                        !.scoringError = "OpenAI API key not configured"]
                                ELSE data.attendees[k]],
                        !.heap[ref].scoringProgress.skipped = data.scoringProgress.total,
                        !.heap[ref].scoringProgress.pending = 0,
                        !.scoring = [NoScoring EXCEPT !.phase = "nokey", !.ref = ref]], ref)
       ELSE LET toScore == {k \in 1..n : Eligible(data.attendees[k])}
                toSkip == {k \in 1..n : Ineligible(data.attendees[k])}
                attendeesToScore ==
                    [j \in 1..Cardinality(toScore) |->
                        [index |-> Ascending(toScore)[j],
                         data |-> data.attendees[Ascending(toScore)[j]].linkedinData]]
                s1 == setData(
                        [s EXCEPT !.heap[ref].attendees =
                                      [k \in 1..n |->
                                          IF k \in toSkip
                                          THEN [data.attendees[k] EXCEPT
                                                  !.scoringStatus = "skipped"]
                                          ELSE data.attendees[k]],
                                  !.heap[ref].scoringProgress.skipped =
                                      @ + Cardinality(toSkip),
                                  !.heap[ref].scoringProgress.pending =
                                      @ - Cardinality(toSkip),
                                  !.scoring = [NoScoring EXCEPT
                                                 !.ref = ref,
                                                 !.attendeesToScore = attendeesToScore,
                                                 !.i = 1]], ref)
            IN IF toScore = {}
               THEN [s1 EXCEPT !.scoring =
                                   [NoScoring EXCEPT !.phase = "noeligible", !.ref = ref]]
               ELSE scoreMultipleCandidatesParallel(s1, MAX_CONCURRENT)

\* ------------------------------------------------- Fetch Stage, the run

\* ScrapeReturn without the test of isScoringInProgress: the end of every fetch
\* run starts a score run
ScrapeReturn_Unguarded(s) ==
    startOpenAIScoring(
        [s EXCEPT !.scrape = [NoScrape EXCEPT !.phase = "done", !.ref = s.scrape.ref],
                  !.dataStore.isScrapingInProgress = FALSE,
                  !.dataStore.isScoringInProgress = TRUE])

\* ScrapeReturn that first removes the attendees without a fetched profile
\* from the snapshot
ScrapeReturn_DropsUnfetched(s) ==
    LET ref == s.dataStore.data
        s1 == [s EXCEPT !.heap[ref].attendees =
                            SelectSeq(@, LAMBDA a : a.scrapingStatus = "completed"),
                        !.scrape = [NoScrape EXCEPT !.phase = "done",
                                                    !.ref = s.scrape.ref],
                        !.dataStore.isScrapingInProgress = FALSE]
    IN IF ~s1.dataStore.isScoringInProgress
       THEN startOpenAIScoring([s1 EXCEPT !.dataStore.isScoringInProgress = TRUE])
       ELSE s1

\* startLinkedInScraping after scrapeMultipleProfiles has returned (its locals
\* are gone): the flag is reset and the Score Stage is started unless its flag
\* is set
ScrapeReturn(s) ==
    LET s1 == [s EXCEPT !.scrape = [NoScrape EXCEPT !.phase = "done",
                                                    !.ref = s.scrape.ref],
                        !.dataStore.isScrapingInProgress = FALSE]
    IN IF ~s1.dataStore.isScoringInProgress
       THEN startOpenAIScoring([s1 EXCEPT !.dataStore.isScoringInProgress = TRUE])
       ELSE s1

\* scrapeMultipleProfiles once scrapeLinkedInProfile has answered for
\* validUrls[i]: the callback, then the one-second wait or the end of the loop.
\* An exception of the callback rejects startLinkedInScraping, whose catch
\* handler (in POST) resets the flag.
ScrapeDeliver(s, result) ==
    LET s1 == onScrapeProgress(s, result)
    IN IF s1.scrape.phase = "threw"
       THEN [s1 EXCEPT !.scrape = [NoScrape EXCEPT !.phase = "threw",
                                                    !.ref = s.scrape.ref],
                       !.dataStore.isScrapingInProgress = FALSE]
       ELSE IF s1.scrape.i < Len(s1.scrape.validUrls)
       THEN [s1 EXCEPT !.scrape.phase = "sleep"]
       ELSE ScrapeReturn(s1)

\* readFromCache(url): the cached profile, NULL on a miss
readFromCache(s, url) == s.cache[url]

\* writeToCache(url, profile)
writeToCache(s, url, profile) == [s EXCEPT !.cache[url] = profile]

\* ScrapeBegin without the cache lookup: every profile is requested from the
\* provider
ScrapeBegin_NoCache(s) ==
    IF s.scrape.i > Len(s.scrape.validUrls) THEN ScrapeReturn(s)
    ELSE LET url == s.scrape.validUrls[s.scrape.i] IN
         IF ~(Truthy(url) /\ IsLinkedInUrl(url))
         THEN ScrapeDeliver(s, [url |-> url, success |-> FALSE, data |-> NULL,
                                error |-> "Invalid LinkedIn URL"])
         ELSE [s EXCEPT !.scrape.phase = "await", !.calls[url] = @ + 1]

\* scrapeMultipleProfiles at the head of its loop, with scrapeLinkedInProfile
\* up to its provider call: a cache hit answers at once, a miss sends the request
ScrapeBegin(s) ==
    IF s.scrape.i > Len(s.scrape.validUrls) THEN ScrapeReturn(s)
    ELSE LET url == s.scrape.validUrls[s.scrape.i] IN
         IF ~(Truthy(url) /\ IsLinkedInUrl(url))
         THEN ScrapeDeliver(s, [url |-> url, success |-> FALSE, data |-> NULL,
                                error |-> "Invalid LinkedIn URL"])
         ELSE IF readFromCache(s, url) # NULL
         THEN ScrapeDeliver(s, [url |-> url, success |-> TRUE,
                                data |-> readFromCache(s, url), error |-> NULL])
         ELSE [s EXCEPT !.scrape.phase = "await", !.calls[url] = @ + 1]

\* startLinkedInScraping up to its first suspension
startLinkedInScraping(s) ==
    LET ref == s.dataStore.data
        data == getData(s)
        n == Len(data.attendees)
    IN IF ~s.env.SCRAPINGDOG_API_KEY
       THEN setData(
              [s EXCEPT !.heap[ref].attendees =
                            [k \in 1..n |->
                                IF data.attendees[k].scrapingStatus = "pending"
                                THEN [data.attendees[k] EXCEPT
                                        !.scrapingStatus = "failed",
                                        !.scrapingError = "API key not configured"]
                                ELSE data.attendees[k]],
                        !.heap[ref].scrapingProgress.failed = data.scrapingProgress.total,
                        !.heap[ref].scrapingProgress.pending = 0,
                        !.scrape = [NoScrape EXCEPT !.phase = "nokey", !.ref = ref]], ref)
       ELSE LET wanted == Ascending({k \in 1..n :
                              /\ Truthy(data.attendees[k].linkedin)
                              /\ data.attendees[k].scrapingStatus = "pending"})
                linkedinUrls == [j \in 1..Len(wanted) |->
                                    [url |-> data.attendees[wanted[j]].linkedin,
                                     index |-> wanted[j]]]
                urls == [j \in 1..Len(wanted) |-> linkedinUrls[j].url]
                validUrls == SelectSeq(urls, LAMBDA u : Truthy(u) /\ IsLinkedInUrl(u))
            IN IF Len(linkedinUrls) = 0
               THEN [s EXCEPT !.scrape = [NoScrape EXCEPT !.phase = "nothing", !.ref = ref]]
               ELSE ScrapeBegin(
                      [s EXCEPT !.scrape = [phase |-> "await", ref |-> ref,
                                            linkedinUrls |-> linkedinUrls,
                                            validUrls |-> validUrls, i |-> 1]])

\* -------------------------------------------------------------- ingestion

\* the EnrichedAttendee POST builds from one attendee of the request body
EnrichedAttendee(linkedin) ==
    [linkedin |-> linkedin,
     linkedinData |-> NULL,
     scrapingStatus |-> IF Truthy(linkedin) THEN "pending" ELSE "no_linkedin",
     scrapingError |-> NULL,
     overall_score |-> 0,
     scoringStatus |-> "pending",
     scoringError |-> NULL]

\* POST without the test of isScrapingInProgress: every ingestion with a
\* profile URL starts a fetch run
POST_Unguarded(s, body, fresh) ==
    LET enrichedAttendees ==
            [k \in 1..Len(body.attendees) |-> EnrichedAttendee(body.attendees[k])]
        linkedinCount ==
            Cardinality({k \in 1..Len(enrichedAttendees) :
                            Truthy(enrichedAttendees[k].linkedin)})
        s1 == setData(
                [s EXCEPT !.heap[fresh] =
                    [attendees |-> enrichedAttendees,
                     eventUrl |-> body.eventUrl,
                     count |-> Len(enrichedAttendees),
                     scrapingProgress |-> [total |-> linkedinCount, completed |-> 0,
                                           pending |-> linkedinCount, failed |-> 0],
                     scoringProgress |-> [total |-> linkedinCount, completed |-> 0,
                                          pending |-> linkedinCount, failed |-> 0,
                                          skipped |-> 0]]], fresh)
        s2 == [s1 EXCEPT !.dataStore.isScrapingInProgress = linkedinCount > 0 \/ @,
                         !.response =
                             [status |-> 200,
                              count |-> Len(body.attendees),
                              linkedinScrapingStarted |-> FALSE,
                              linkedinProfilesQueued |-> linkedinCount]]
    IN IF linkedinCount > 0 THEN startLinkedInScraping(s2) ELSE s2

\* POST with a body that has an attendees array, up to its return; `fresh` is the
\* reference of the StoredData object it builds
POST(s, body, fresh) ==
    LET enrichedAttendees ==
            [k \in 1..Len(body.attendees) |-> EnrichedAttendee(body.attendees[k])]
        linkedinCount ==
            Cardinality({k \in 1..Len(enrichedAttendees) :
                            Truthy(enrichedAttendees[k].linkedin)})
        s1 == setData(
                [s EXCEPT !.heap[fresh] =
                    [attendees |-> enrichedAttendees,
                     eventUrl |-> body.eventUrl,
                     count |-> Len(enrichedAttendees),
                     scrapingProgress |-> [total |-> linkedinCount, completed |-> 0,
                                           pending |-> linkedinCount, failed |-> 0],
                     scoringProgress |-> [total |-> linkedinCount, completed |-> 0,
                                          pending |-> linkedinCount, failed |-> 0,
                                          skipped |-> 0]]], fresh)
        started == linkedinCount > 0 /\ ~s1.dataStore.isScrapingInProgress
        \* the flag as POST reads it when it builds the response: the
        \* synchronous part of startLinkedInScraping never writes it
        s2 == IF started
              THEN [s1 EXCEPT !.dataStore.isScrapingInProgress = TRUE]
              ELSE s1
        s3 == [s2 EXCEPT !.response =
                 [status |-> 200,
                  count |-> Len(body.attendees),
                  linkedinScrapingStarted |->
                      linkedinCount > 0 /\ ~s2.dataStore.isScrapingInProgress,
                  linkedinProfilesQueued |-> linkedinCount]]
    IN IF started THEN startLinkedInScraping(s3) ELSE s3

\* ------------------------------------------------------------ the machine

\* the program state as one record
State ==
    [heap |-> heap, dataStore |-> dataStore, env |-> env, cache |-> cache,
     scrape |-> scrape, scoring |-> scoring, calls |-> calls, response |-> response]

\* the StoredData objects something still references: the store, and the
\* attendee objects a score run in progress holds
Live(s) ==
    {s.dataStore.data} \cup (IF s.scoring.phase = "await" THEN {s.scoring.ref} ELSE {})

\* the next state is s; objects nothing references are collected
Becomes(s) ==
    /\ heap' = [r \in Refs |-> IF r \in Live(s) THEN s.heap[r] ELSE EmptyData]
    /\ dataStore' = s.dataStore
    /\ env' = s.env
    /\ cache' = s.cache
    /\ scrape' = s.scrape
    /\ scoring' = s.scoring
    /\ calls' = s.calls
    /\ response' = s.response

\* batches beyond the length bound: the three-item scenario (a profile that is
\* fetched, one whose request may fail, an attendee without identity), two
\* distinct profiles, two attendees with the same profile URL, a non-LinkedIn
\* URL next to a LinkedIn one, and a profile behind an attendee without identity
ScenarioBatches ==
    {<<"linkedin.com/in/a", "linkedin.com/in/b", "">>,
     <<"linkedin.com/in/a", "linkedin.com/in/b">>,
     <<"linkedin.com/in/a", "linkedin.com/in/a">>,
     <<"https://x.com/a", "linkedin.com/in/a">>,
     <<"", "linkedin.com/in/a">>}

\* request bodies with an attendees array
Bodies ==
    [attendees : SeqUpTo(LinkedinValues, MaxAttendees) \cup ScenarioBatches,
     eventUrl : EventUrls]

\* error.response?.data?.message || error.message || 'Unknown error'
ProviderErrors == {"timeout of 30000ms exceeded"}

\* outcomes of one scoring-provider call: an evaluation, or a failure
ScoringResults == {scoreCandidateReturn(content) : content \in ProviderContents}

NoResponse ==
    [status |-> 0, count |-> 0, linkedinScrapingStarted |-> FALSE,
     linkedinProfilesQueued |-> 0]

Init ==
    /\ heap = [r \in Refs |-> EmptyData]
    /\ dataStore = [data |-> 0, isScrapingInProgress |-> FALSE,
                    isScoringInProgress |-> FALSE]
    /\ env \in [SCRAPINGDOG_API_KEY : BOOLEAN, OPENAI_API_KEY : BOOLEAN]
    /\ cache = [u \in LinkedinValues |-> NULL]
    /\ scrape = NoScrape
    /\ scoring = NoScoring
    /\ calls = [u \in LinkedinValues |-> 0]
    /\ response = NoResponse
    /\ posts = 0
    /\ temp = {}
    /\ retry = NoRetry

\* POST /api/attendees with an attendees array
Post ==
    /\ posts < MaxPosts
    /\ posts' = posts + 1
    /\ temp' = temp
    /\ retry' = retry
    /\ \E body \in Bodies : Becomes(POST(State, body, posts + 1))

\* PostInvalid with the validation after the store: the body's missing
\* attendees are stored as an empty batch before the request is rejected
PostInvalid_StoresFirst ==
    /\ posts < MaxPosts
    /\ posts' = posts + 1
    /\ temp' = temp
    /\ retry' = retry
    /\ Becomes([setData([State EXCEPT !.heap[posts + 1] = EmptyData], posts + 1)
                   EXCEPT !.response = [NoResponse EXCEPT !.status = 400]])

\* POST /api/attendees without an attendees array: 400, nothing else
PostInvalid ==
    /\ posts < MaxPosts
    /\ posts' = posts + 1
    /\ temp' = temp
    /\ retry' = retry
    /\ response' = [NoResponse EXCEPT !.status = 400]
    /\ UNCHANGED <<heap, dataStore, env, cache, scrape, scoring, calls>>

\* ScrapeSucceeds without the write to the cache
ScrapeSucceeds_NoWrite ==
    /\ scrape.phase = "await"
    /\ \E p \in Profiles :
         LET url == scrape.validUrls[scrape.i]
         IN Becomes(ScrapeDeliver(State,
                        [url |-> url, success |-> TRUE, data |-> p, error |-> NULL]))
    /\ UNCHANGED <<posts, temp, retry>>

\* the profile provider answers the request in flight with a profile:
\* scrapeLinkedInProfile writes it to the cache and returns success
ScrapeSucceeds ==
    /\ scrape.phase = "await"
    /\ \E p \in Profiles :
         LET url == scrape.validUrls[scrape.i]
         IN Becomes(ScrapeDeliver(writeToCache(State, url, p),
                        [url |-> url, success |-> TRUE, data |-> p, error |-> NULL]))
    /\ UNCHANGED <<posts, temp, retry>>

\* ScrapeFails with a write to the cache: the failure is cached as a profile
\* without text
ScrapeFails_WritesCache ==
    /\ scrape.phase = "await"
    /\ \E e \in ProviderErrors :
         LET url == scrape.validUrls[scrape.i]
         IN Becomes(ScrapeDeliver(writeToCache(State, url, "bare"),
                        [url |-> url, success |-> FALSE, data |-> NULL, error |-> e]))
    /\ UNCHANGED <<posts, temp, retry>>

\* ScrapeFails with a retry in line: the failed request is sent again
ScrapeFails_Retry ==
    /\ scrape.phase = "await"
    /\ Becomes([State EXCEPT !.calls[scrape.validUrls[scrape.i]] = @ + 1])
    /\ UNCHANGED <<posts, temp, retry>>

\* the request in flight fails or times out
ScrapeFails ==
    /\ scrape.phase = "await"
    /\ \E e \in ProviderErrors :
         LET url == scrape.validUrls[scrape.i]
         IN Becomes(ScrapeDeliver(State,
                        [url |-> url, success |-> FALSE, data |-> NULL, error |-> e]))
    /\ UNCHANGED <<posts, temp, retry>>

\* the one-second timer between two requests fires
ScrapeTimer ==
    /\ scrape.phase = "sleep"
    /\ Becomes(ScrapeBegin([State EXCEPT !.scrape.i = @ + 1]))
    /\ UNCHANGED <<posts, temp, retry>>

\* the scoring provider answers one of the calls in flight
ScoreResponse ==
    /\ scoring.phase = "await"
    /\ \E pos \in scoring.inflight, result \in ScoringResults :
         Becomes(ScoreDeliver(State, pos, result))
    /\ UNCHANGED <<posts, temp, retry>>

Next ==
    \/ Post
    \/ PostInvalid
    \/ ScrapeSucceeds
    \/ ScrapeFails
    \/ ScrapeTimer
    \/ ScoreResponse

Spec == Init /\ [][Next]_vars

\* ------------------------------------------------ the Score Stage at scale

\* which profiles of a large batch have too little text to score: none, or
\* every fourth
ScorerPatterns == {"rich", "mixed"}

ScorerProfile(k, pattern) ==
    IF pattern = "mixed" /\ k % 4 = 0 THEN "bare" ELSE "rich"

\* the program at the last step of the fetch run of one batch of n attendees
\* with distinct profile URLs, every profile fetched from the provider
Fetched(n, pattern) ==
    [heap |-> [r \in Refs |->
                 IF r # 1 THEN EmptyData
                 ELSE [attendees |->
                          [k \in 1..n |->
                              [EnrichedAttendee(ScorerUrl(k)) EXCEPT
                                  !.linkedinData = ScorerProfile(k, pattern),
                                  !.scrapingStatus = "completed"]],
                       eventUrl |-> "https://lu.ma/e1",
                       count |-> n,
                       scrapingProgress |-> [total |-> n, completed |-> n,
                                             pending |-> 0, failed |-> 0],
                       scoringProgress |-> [total |-> n, completed |-> 0,
                                            pending |-> n, failed |-> 0,
                                            skipped |-> 0]]],
     dataStore |-> [data |-> 1, isScrapingInProgress |-> TRUE,
                    isScoringInProgress |-> FALSE],
     env |-> [SCRAPINGDOG_API_KEY |-> TRUE, OPENAI_API_KEY |-> TRUE],
     cache |-> [u \in LinkedinValues \cup ScorerUrls |->
                  IF \E k \in 1..n : u = ScorerUrl(k)
                  THEN ScorerProfile(CHOOSE k \in 1..n : u = ScorerUrl(k), pattern)
                  ELSE NULL],
     scrape |-> [phase |-> "await", ref |-> 1,
                 linkedinUrls |-> [k \in 1..n |-> [url |-> ScorerUrl(k), index |-> k]],
                 validUrls |-> [k \in 1..n |-> ScorerUrl(k)],
                 i |-> n],
     scoring |-> NoScoring,
     calls |-> [u \in LinkedinValues \cup ScorerUrls |->
                  IF \E k \in 1..n : u = ScorerUrl(k) THEN 1 ELSE 0],
     response |-> [status |-> 200, count |-> n, linkedinScrapingStarted |-> FALSE,
                   linkedinProfilesQueued |-> n]]

\* the fetch run of such a batch has just ended and dispatched the score run
ScorerInit ==
    /\ posts = 1
    /\ temp = {}
    /\ retry = NoRetry
    /\ \E n \in 1..MaxProfiles, pattern \in ScorerPatterns :
         LET s == ScrapeReturn(Fetched(n, pattern))
         IN /\ heap = s.heap
            /\ dataStore = s.dataStore
            /\ env = s.env
            /\ cache = s.cache
            /\ scrape = s.scrape
            /\ scoring = s.scoring
            /\ calls = s.calls
            /\ response = s.response

\* what the scoring provider answers for the profile at position pos: no
\* content for every fifth, an evaluation for the others
ScorerAnswer(pos) ==
    IF pos % 5 = 0
    THEN scoreCandidateReturn("")
    ELSE scoreCandidateReturn("{overall_score: 70, ...}")

\* the scoring provider answers one of the calls in flight
ScorerResponse ==
    /\ scoring.phase = "await"
    /\ \E pos \in scoring.inflight :
         Becomes(ScoreDeliver(State, pos, ScorerAnswer(pos)))
    /\ UNCHANGED <<posts, temp, retry>>

ScorerNext == ScorerResponse

ScorerSpec == ScorerInit /\ [][ScorerNext]_vars

\* ------------------------------------------- the store across restarts

\* the JSON value {}
EmptyObject == [f \in {} |-> NULL]

\* a file of temp/: the number in its name, whether its text parses as JSON
\* and to what value, and whether the match-face request that wrote it is
\* still waiting for the face recognition
TempFile(timestamp, parses, value, open) ==
    [timestamp |-> timestamp, parses |-> parses, value |-> value, open |-> open]

\* what temp/ may hold when the process is first started: nothing, a file
\* whose text was cut short, a file with the text {}
InitialDirectories ==
    {{},
     {TempFile(1, FALSE, EmptyObject, FALSE)},
     {TempFile(1, TRUE, EmptyObject, FALSE)}}

\* Date.now() when a file is written: later than every file in temp/
DateNow(files) ==
    IF files = {} THEN 1
    ELSE 1 + (CHOOSE n \in {f.timestamp : f \in files} :
                  \A f \in files : n >= f.timestamp)

\* DataStore's data after the constructor: the parsed content of the file
\* with the greatest timestamp, assigned before anything of it is read; the
\* constructor's empty snapshot when there is no file or JSON.parse throws
loadFromTempCache(files) ==
    IF files = {} THEN EmptyData
    ELSE LET latestFile ==
                 CHOOSE f \in files : \A g \in files : f.timestamp >= g.timestamp
         IN IF latestFile.parses THEN latestFile.value ELSE EmptyData

\* the process ends and is started again: the runs in progress and the
\* requests waiting are gone with the memory, the DataStore singleton is
\* constructed anew; the disk (temp/, the profile cache) stays
Restart ==
    /\ heap' = [r \in Refs |-> IF r = 0 THEN loadFromTempCache(temp) ELSE EmptyData]
    /\ dataStore' = [data |-> 0, isScrapingInProgress |-> FALSE,
                     isScoringInProgress |-> FALSE]
    /\ scrape' = NoScrape
    /\ scoring' = NoScoring
    /\ response' = NoResponse
    /\ temp' = {[f EXCEPT !.open = FALSE] : f \in temp}
    /\ UNCHANGED <<env, cache, calls, posts, retry>>

\* an attendee whose fetched profile has a photo
HasProfilePhoto(a) == a.linkedinData = "rich"

\* POST /api/match-face up to the start of the face recognition: the
\* attendees with a photo are written to a new file of temp/
MatchFaceBegin ==
    LET data == getData(State)
        attendees == IF "attendees" \in DOMAIN data THEN data.attendees ELSE <<>>
        attendeesWithPhotos == SelectSeq(attendees, HasProfilePhoto)
    IN /\ Len(attendeesWithPhotos) > 0
       /\ DateNow(temp) <= MaxTimestamp
       /\ temp' = temp \cup {TempFile(DateNow(temp), TRUE,
                                       [attendees |-> attendeesWithPhotos], TRUE)}
       /\ UNCHANGED <<heap, dataStore, env, cache, scrape, scoring, calls,
                       response, posts, retry>>

\* the face recognition answers: the request removes its file
MatchFaceReturns ==
    /\ \E f \in temp : f.open /\ temp' = temp \ {f}
    /\ UNCHANGED <<heap, dataStore, env, cache, scrape, scoring, calls,
                    response, posts, retry>>

\* the face recognition fails (exit code, unparseable output, 200 s timeout):
\* the request answers 500 and its file stays
MatchFaceFails ==
    /\ \E f \in temp : f.open /\ temp' = (temp \ {f}) \cup {[f EXCEPT !.open = FALSE]}
    /\ UNCHANGED <<heap, dataStore, env, cache, scrape, scoring, calls,
                    response, posts, retry>>

\* the request bodies ingested across restarts: one profile, two profiles
StoreBodies ==
    [attendees : {<<"linkedin.com/in/a">>, <<"linkedin.com/in/a", "linkedin.com/in/b">>},
     eventUrl : EventUrls]

\* POST /api/attendees with one of these bodies
StorePost ==
    /\ posts < MaxPosts
    /\ posts' = posts + 1
    /\ temp' = temp
    /\ retry' = retry
    /\ \E body \in StoreBodies : Becomes(POST(State, body, posts + 1))

\* the first start of the process with both API keys configured
StoreInit ==
    /\ temp \in InitialDirectories
    /\ retry = NoRetry
    /\ heap = [r \in Refs |-> IF r = 0 THEN loadFromTempCache(temp) ELSE EmptyData]
    /\ dataStore = [data |-> 0, isScrapingInProgress |-> FALSE,
                    isScoringInProgress |-> FALSE]
    /\ env = [SCRAPINGDOG_API_KEY |-> TRUE, OPENAI_API_KEY |-> TRUE]
    /\ cache = [u \in LinkedinValues |-> NULL]
    /\ scrape = NoScrape
    /\ scoring = NoScoring
    /\ calls = [u \in LinkedinValues |-> 0]
    /\ response = NoResponse
    /\ posts = 0

StoreNext ==
    \/ StorePost
    \/ ScrapeSucceeds
    \/ ScrapeFails
    \/ ScrapeTimer
    \/ ScoreResponse
    \/ MatchFaceBegin
    \/ MatchFaceReturns
    \/ MatchFaceFails
    \/ Restart

StoreSpec == StoreInit /\ [][StoreNext]_vars

\* ------------------------------------------------- the retry operation

\* the ScrapedResult with which retryFailedScrape returns
retryReturn(s, result) ==
    [s EXCEPT !.retry.phase = "returned", !.retry.result = result]

RECURSIVE retryAttempt(_)
RECURSIVE retryResult(_, _)

\* retryResult with the backoff wait after every failed attempt, the last one
\* included
retryResult_WaitsAfterLast(s, result) ==
    IF result.success THEN retryReturn(s, result)
    ELSE [s EXCEPT !.retry.lastError =
                       IF Truthy(result.error) THEN result.error ELSE "Unknown error",
                   !.retry.phase = "sleep",
                   !.retry.delay = (2 ^ s.retry.attempt) * 1000]

\* retryFailedScrape once scrapeLinkedInProfile has answered attempt number
\* retry.attempt: a success is returned; a failure is remembered and followed
\* by the backoff wait if another attempt is left
retryResult(s, result) ==
    IF result.success THEN retryReturn(s, result)
    ELSE LET s1 == [s EXCEPT !.retry.lastError =
                                 IF Truthy(result.error) THEN result.error
                                 ELSE "Unknown error"]
         IN IF s1.retry.attempt < s1.retry.maxRetries
            THEN [s1 EXCEPT !.retry.phase = "sleep",
                            !.retry.delay = (2 ^ s1.retry.attempt) * 1000]
            ELSE retryAttempt([s1 EXCEPT !.retry.attempt = @ + 1])

\* retryFailedScrape at the head of its loop, with scrapeLinkedInProfile up to
\* its provider call; after the loop, the failure that names the retry count
\* and the last error
retryAttempt(s) ==
    IF s.retry.attempt > s.retry.maxRetries
    THEN retryReturn(s, [url |-> s.retry.url, success |-> FALSE, data |-> NULL,
                         error |-> "Failed after " \o ToString(s.retry.maxRetries)
                                       \o " retries: " \o s.retry.lastError])
    ELSE LET url == s.retry.url
             s1 == [s EXCEPT !.retry.fetches = @ + 1]
         IN IF ~(Truthy(url) /\ IsLinkedInUrl(url))
            THEN retryResult(s1, [url |-> url, success |-> FALSE, data |-> NULL,
                                  error |-> "Invalid LinkedIn URL"])
            ELSE IF s1.cache[url] # NULL
            THEN retryResult(s1, [url |-> url, success |-> TRUE,
                                  data |-> s1.cache[url], error |-> NULL])
            ELSE [s1 EXCEPT !.retry.phase = "await", !.calls[url] = @ + 1]

\* the part of the program retryFailedScrape works on
RetryState == [cache |-> cache, calls |-> calls, retry |-> retry]

RetryBecomes(s) ==
    /\ cache' = s.cache
    /\ calls' = s.calls
    /\ retry' = s.retry
    /\ UNCHANGED <<heap, dataStore, env, scrape, scoring, response, posts, temp>>

\* the URLs retryFailedScrape is called with: two profiles, no LinkedIn URL
RetryUrls == {"linkedin.com/in/a", "linkedin.com/in/b", "https://x.com/a"}

\* error.response?.data?.message || error.message of a failed request
RetryErrors == ProviderErrors \cup {"Request failed with status code 429"}

\* retryFailedScrape(url, apiKey, maxRetries) is called
RetryCall ==
    /\ retry.phase = "none"
    /\ \E url \in RetryUrls, maxRetries \in 0..MaxRetryBound :
         RetryBecomes(retryAttempt(
             [RetryState EXCEPT !.retry = [NoRetry EXCEPT !.url = url,
                                                          !.maxRetries = maxRetries,
                                                          !.attempt = 1]]))

\* the profile provider answers the attempt in flight with a profile
RetrySucceeds ==
    /\ retry.phase = "await"
    /\ \E p \in Profiles :
         RetryBecomes(retryResult([RetryState EXCEPT !.cache[retry.url] = p],
                          [url |-> retry.url, success |-> TRUE, data |-> p,
                           error |-> NULL]))

\* the attempt in flight fails or times out
RetryFails ==
    /\ retry.phase = "await"
    /\ \E e \in RetryErrors :
         RetryBecomes(retryResult(RetryState,
                          [url |-> retry.url, success |-> FALSE, data |-> NULL,
                           error |-> e]))

\* the backoff timer fires
RetryTimer ==
    /\ retry.phase = "sleep"
    /\ RetryBecomes(retryAttempt([RetryState EXCEPT !.retry.attempt = @ + 1,
                                                     !.retry.phase = "none",
                                                     !.retry.delay = 0]))

\* a started process with the profile of linkedin.com/in/b cached or not
RetryInit ==
    /\ heap = [r \in Refs |-> EmptyData]
    /\ dataStore = [data |-> 0, isScrapingInProgress |-> FALSE,
                    isScoringInProgress |-> FALSE]
    /\ env = [SCRAPINGDOG_API_KEY |-> TRUE, OPENAI_API_KEY |-> TRUE]
    /\ \E cached \in {NULL} \cup Profiles :
         cache = [u \in LinkedinValues |->
                     IF u = "linkedin.com/in/b" THEN cached ELSE NULL]
    /\ scrape = NoScrape
    /\ scoring = NoScoring
    /\ calls = [u \in LinkedinValues |-> 0]
    /\ response = NoResponse
    /\ posts = 0
    /\ temp = {}
    /\ retry = NoRetry

RetryNext ==
    \/ RetryCall
    \/ RetrySucceeds
    \/ RetryFails
    \/ RetryTimer

\* every request is answered or times out after 30 s, every timer fires
RetrySpec == RetryInit /\ [][RetryNext]_vars /\ WF_vars(RetryNext)

\* ======================================================================
\* Properties
\* ======================================================================

\* the snapshot the store references, its records and its two progress blocks
live == heap[dataStore.data]
fetchProgress == live.scrapingProgress
scoreProgress == live.scoringProgress
Items == 1..Len(live.attendees)

\* C1: in every reachable state the fetch counters satisfy
\* total = completed + pending + failed and the score counters satisfy
\* total = completed + pending + failed + skipped.
C1_ProgressSums ==
    /\ fetchProgress.total =
         fetchProgress.completed + fetchProgress.pending + fetchProgress.failed
    /\ scoreProgress.total =
         scoreProgress.completed + scoreProgress.pending + scoreProgress.failed
           + scoreProgress.skipped

\* C1 witness: after a superseding ingestion, items have completed and failed in
\* the Fetch Stage, one was scored and one was skipped
C1_Witness ==
    /\ posts = 2
    /\ fetchProgress.completed > 0
    /\ fetchProgress.failed > 0
    /\ scoreProgress.completed > 0
    /\ scoreProgress.skipped > 0

\* C2: every counter of fetchProgress and scoreProgress is non-negative in every
\* reachable state.
C2_CountersNonNegative ==
    /\ \A f \in {"total", "completed", "pending", "failed"} : fetchProgress[f] >= 0
    /\ \A f \in {"total", "completed", "pending", "failed", "skipped"} :
          scoreProgress[f] >= 0

\* C3: for every record, scoreStatus # Pending implies that fetchStatus is
\* terminal (Completed, Failed or NotApplicable).
C3_ScoreOnlyAfterFetch ==
    \A i \in Items :
        live.attendees[i].scoringStatus # "pending"
            => live.attendees[i].scrapingStatus \in {"completed", "failed", "no_linkedin"}

\* C4: no record of the live snapshot has scoreStatus = Completed while its
\* fetchStatus is not Completed, and every scoring-provider call in flight is for
\* a record whose fetchStatus is Completed and whose scoreStatus is Pending.
C4_ScoredOnlyIfFetched ==
    /\ \A i \in Items :
          live.attendees[i].scoringStatus = "completed"
              => live.attendees[i].scrapingStatus = "completed"
    /\ scoring.phase = "await" =>
          \A pos \in scoring.inflight :
              LET attendee ==
                      heap[scoring.ref].attendees[scoring.attendeesToScore[pos].index]
              IN /\ attendee.scrapingStatus = "completed"
                 /\ attendee.scoringStatus = "pending"

\* C4 witness: a scoring call is in flight while another record of the same
\* snapshot was skipped and a third was scored
C4_Witness ==
    /\ scoring.phase = "await"
    /\ scoring.ref = dataStore.data
    /\ \E i \in Items : live.attendees[i].scoringStatus = "skipped"
    /\ \E i \in Items : live.attendees[i].scoringStatus = "completed"

\* nothing is in flight and no timer is pending: without a further request the
\* state never changes again
Quiescent ==
    /\ scrape.phase \notin {"await", "sleep"}
    /\ scoring.phase # "await"

\* C5: for a batch that is not superseded, every item whose fetchStatus ends up
\* Failed or NotApplicable reaches scoreStatus = Skipped; stated on the states
\* in which every external call has returned.
C5_UnfetchedEndSkipped ==
    Quiescent =>
        \A i \in Items :
            live.attendees[i].scrapingStatus \in {"failed", "no_linkedin"}
                => live.attendees[i].scoringStatus = "skipped"

\* the linkedin fields of a snapshot's records, in order
LinkedinOf(data) == [k \in 1..Len(data.attendees) |-> data.attendees[k].linkedin]

\* C6: after a completed fetch run of a batch that was not superseded,
\* fetchProgress.total is the number of items with a non-empty identity,
\* completed + failed = total and pending = 0.
C6_FetchRunTotals ==
    (scrape.phase = "done" /\ scrape.ref = dataStore.data) =>
        /\ fetchProgress.total =
             Cardinality({i \in Items : live.attendees[i].linkedin # ""})
        /\ fetchProgress.completed + fetchProgress.failed = fetchProgress.total
        /\ fetchProgress.pending = 0

\* the three-item scenario has run to its end with the outcomes it names: A's
\* profile was returned and scored, B's request failed, C has no identity
ScenarioRan ==
    /\ posts = 1
    /\ LinkedinOf(live) = <<"linkedin.com/in/a", "linkedin.com/in/b", "">>
    /\ scrape.phase = "done"
    /\ scoring.phase = "done"
    /\ live.attendees[1].scrapingStatus = "completed"
    /\ live.attendees[1].scoringStatus = "completed"
    /\ live.attendees[2].scrapingStatus = "failed"

\* C7: the scenario ends with B Skipped, C NotApplicable and Skipped,
\* fetchProgress = {total 2, completed 1, failed 1, pending 0} and
\* scoreProgress = {total 1, completed 1, skipped 2, pending 0, failed 0}.
C7_ScenarioFinalState ==
    ScenarioRan =>
        /\ live.attendees[2].scoringStatus = "skipped"
        /\ live.attendees[3].scrapingStatus = "no_linkedin"
        /\ live.attendees[3].scoringStatus = "skipped"
        /\ fetchProgress = [total |-> 2, completed |-> 1, failed |-> 1, pending |-> 0]
        /\ scoreProgress = [total |-> 1, completed |-> 1, skipped |-> 2, pending |-> 0,
                            failed |-> 0]

\* C8: when the Score Stage of a run starts, every item of the batch has a
\* terminal fetchStatus.
C8_ScoreStartsAfterFetch ==
    [][(scoring' # scoring /\ scoring'.phase # "none" /\ scoring.phase # "await")
          => \A k \in 1..Len(heap'[scoring'.ref].attendees) :
                 heap'[scoring'.ref].attendees[k].scrapingStatus
                     \in {"completed", "failed", "no_linkedin"}]_vars

\* a fetch call dispatched before the live snapshot was ingested returns
StaleScrapeCompletion ==
    /\ scrape.phase = "await"
    /\ scrape.ref # dataStore.data
    /\ scrape' # scrape
    /\ posts' = posts

\* a scoring call dispatched for an older snapshot returns
StaleScoreCompletion ==
    /\ scoring.phase = "await"
    /\ scoring.ref # dataStore.data
    /\ scoring' # scoring
    /\ scrape' = scrape
    /\ posts' = posts

\* C9: a completion that belongs to a superseded run changes no record and no
\* counter of the current snapshot.
C9_StaleCompletionDiscarded ==
    [][(StaleScrapeCompletion \/ StaleScoreCompletion)
          => heap'[dataStore.data] = heap[dataStore.data]]_vars

\* an ingestion of the batch that is being fetched, with the same event URL
ReingestWhileFetchRunning ==
    /\ posts' = posts + 1
    /\ dataStore'.data # dataStore.data
    /\ scrape.phase \in {"await", "sleep"}
    /\ scrape.ref = dataStore.data
    /\ LinkedinOf(heap'[dataStore'.data]) = LinkedinOf(live)
    /\ heap'[dataStore'.data].eventUrl = live.eventUrl

\* C10: re-ingesting the batch that is being fetched starts no second fetch run
\* and sends no request to the profile provider: the run in progress, the
\* requests sent so far, the cache and the guard are as before.
C10_ReingestStartsNothing ==
    [][ReingestWhileFetchRunning =>
          /\ scrape' = scrape
          /\ calls' = calls
          /\ cache' = cache
          /\ dataStore'.isScrapingInProgress = dataStore.isScrapingInProgress]_vars

\* C10 witness: the batch that is being fetched was ingested again (every item
\* of it has a profile URL) and the first run is still fetching
C10_Witness ==
    /\ posts = 2
    /\ dataStore.data = 2
    /\ scrape.ref = 1
    /\ scrape.phase \in {"await", "sleep"}
    /\ Len(live.attendees) = 2
    /\ Len(scrape.linkedinUrls) = 2
    /\ scrape.i = 2
    /\ \A j \in 1..2 :
          scrape.linkedinUrls[j] = [url |-> live.attendees[j].linkedin, index |-> j]

\* a fetch run is executing: a request is in flight or the run waits for its timer
FetchRunExecuting == scrape.phase \in {"await", "sleep"}

\* a score run is executing: scoring calls are in flight
ScoreRunExecuting == scoring.phase = "await"

\* C11: the fetch guard is cleared on every exit path of a fetch run (normal
\* completion, thrown error, missing credential, nothing to fetch): it is never
\* set in a state in which no fetch run is executing.
C11_FetchGuardReleased ==
    dataStore.isScrapingInProgress => FetchRunExecuting

\* C12: the score guard is released on every exit path of a score run, the
\* missing-credential return and the no-eligible-item return included: it is
\* never set in a state in which no score run is executing.
C12_ScoreGuardReleased ==
    dataStore.isScoringInProgress => ScoreRunExecuting

\* an ingestion dispatches a fetch run (it may have ended by the time POST returns)
FetchRunStarts ==
    /\ posts' = posts + 1
    /\ scrape'.phase # "none"
    /\ scrape'.ref = posts'

\* the end of a fetch run dispatches a score run
ScoreRunStarts ==
    /\ scrape' # scrape
    /\ scrape'.phase = "done"
    /\ scoring' # scoring

\* C13: runs never overlap within a stage: a fetch run is dispatched only while
\* no fetch run is executing and a score run only while no score run is
\* executing, whatever the interleaving of requests and completions.
C13_RunsNeverOverlap ==
    [][/\ FetchRunStarts => ~FetchRunExecuting
       /\ ScoreRunStarts => ~ScoreRunExecuting]_vars

\* C13 witness: the fetch run of a second batch has ended while the score run of
\* the first batch still has a call in flight
C13_Witness ==
    /\ posts = 2
    /\ scrape.phase = "done"
    /\ scrape.ref = 2
    /\ scoring.phase = "await"
    /\ scoring.ref = 1
    /\ dataStore.isScoringInProgress

\* C14: with maxConcurrent = 10 and any number of eligible items, at no point
\* are more than 10 scoring-provider calls unresolved.
C14_BoundedConcurrency ==
    Cardinality(scoring.inflight) <= MAX_CONCURRENT

\* C14 witness: of 25 eligible items the second batch is in flight, all ten of
\* its calls unresolved
C14_Witness ==
    /\ ScoreRunExecuting
    /\ Len(scoring.attendeesToScore) = 25
    /\ scoring.i = 11
    /\ Cardinality(scoring.inflight) = MAX_CONCURRENT

\* the eligible items of the run that were not handed to scoreCandidate yet
Undispatched ==
    {k \in 1..Len(scoring.attendeesToScore) : k >= scoring.i + MAX_CONCURRENT}

ReachesProvider(k) ==
    ~(formatLinkedInProfile(scoring.attendeesToScore[k].data) < MinProfileText)

\* the calls of the batch that starts at position i
CallsOfBatch(i) ==
    {k \in i..Min(i + MAX_CONCURRENT - 1, Len(scoring.attendeesToScore)) :
        ReachesProvider(k)}

FetchedAs(data, index, profile) ==
    index <= Len(data.attendees) =>
        /\ data.attendees[index].linkedinData = profile
        /\ data.attendees[index].scrapingStatus = "completed"

\* the timer of the fetch run fires and the next profile URL has a cache entry
TimerCacheHit ==
    /\ scrape.phase = "sleep"
    /\ scrape' # scrape
    /\ cache[scrape.validUrls[scrape.i + 1]] # NULL

\* the profile URLs of the snapshot an ingestion stores, by index
ValidOf(data) ==
    {k \in 1..Len(data.attendees) : IsLinkedInUrl(data.attendees[k].linkedin)}

\* an ingestion dispatches a fetch run whose first profile URL has a cache entry
PostCacheHit ==
    /\ FetchRunStarts
    /\ env.SCRAPINGDOG_API_KEY
    /\ ValidOf(heap'[posts']) # {}
    /\ cache[heap'[posts'].attendees[
                 CHOOSE k \in ValidOf(heap'[posts']) :
                     \A j \in ValidOf(heap'[posts']) : k <= j].linkedin] # NULL

\* C16: fetching one item whose identity has a cache entry makes no call to
\* the profile provider and returns success with the cached profile (the
\* item's record becomes Completed with that profile); a call to the provider
\* is made only for an identity without cache entry.
C16_CacheHitNoCall ==
    [][/\ \A u \in LinkedinValues :
              calls'[u] # calls[u] => (calls'[u] = calls[u] + 1 /\ cache[u] = NULL)
       /\ TimerCacheHit =>
              LET url == scrape.validUrls[scrape.i + 1]
                  item == scrape.linkedinUrls[FindUrlItem(scrape.linkedinUrls, url)]
              IN /\ calls' = calls
                 /\ cache' = cache
                 /\ FetchedAs(heap'[dataStore.data], item.index, cache[url])
       /\ PostCacheHit =>
              LET first == CHOOSE k \in ValidOf(heap'[posts']) :
                               \A j \in ValidOf(heap'[posts']) : k <= j
              IN /\ calls' = calls
                 /\ cache' = cache
                 /\ FetchedAs(heap'[posts'], first,
                              cache[heap'[posts'].attendees[first].linkedin])]_vars

\* C16 witness: a batch named one profile URL twice; the run has requested it
\* from the provider once and has delivered it twice
C16_Witness ==
    /\ posts = 1
    /\ LinkedinOf(live) = <<"linkedin.com/in/a", "linkedin.com/in/a">>
    /\ calls["linkedin.com/in/a"] = 1
    /\ cache["linkedin.com/in/a"] # NULL
    /\ fetchProgress.completed = 2

\* a batch with identity u is ingested after the fetch run of the live batch,
\* which has u too, has finished
SuccessiveIngestion(u) ==
    /\ posts' = posts + 1
    /\ scrape.phase = "done"
    /\ scrape.ref = dataStore.data
    /\ \E k \in Items : live.attendees[k].linkedin = u
    /\ \E k \in 1..Len(heap'[posts'].attendees) :
           heap'[posts'].attendees[k].linkedin = u

\* the finished run of the live batch fetched the profile of u
FetchedInLiveBatch(u) ==
    \E k \in Items :
        /\ live.attendees[k].linkedin = u
        /\ live.attendees[k].scrapingStatus = "completed"

\* C17 as claimed: when an identity is submitted in two successive batches, the
\* second ingested after the run of the first has finished, the Fetch Stage of
\* the second batch finds the identity in the cache and sends no request to
\* the profile provider for it.
C17_SecondBatchHitsCache ==
    [][\A u \in {"linkedin.com/in/a", "linkedin.com/in/b"} :
          SuccessiveIngestion(u) => (cache[u] # NULL /\ calls'[u] = calls[u])]_vars

\* C17 as amended: when the run of the first batch fetched the identity's
\* profile, the cache holds it when the second batch is ingested; and from then
\* on the entry stays and no request for that identity is sent to the provider.
C17_FetchedIdentityHitsCache ==
    [][\A u \in {"linkedin.com/in/a", "linkedin.com/in/b"} :
          /\ (SuccessiveIngestion(u) /\ FetchedInLiveBatch(u)) => cache[u] # NULL
          /\ cache[u] # NULL => (cache'[u] = cache[u] /\ calls'[u] = calls[u])]_vars

\* C17 witness: the first batch's profile was requested once and is being
\* scored; the same identity was ingested again and the fetch run of the second
\* batch has completed it without a second request
C17_Witness ==
    /\ posts = 2
    /\ scoring.phase = "await"
    /\ scoring.ref = 1
    /\ LinkedinOf(heap[1]) = <<"linkedin.com/in/a">>
    /\ scrape.phase = "done"
    /\ scrape.ref = 2
    /\ dataStore.data = 2
    /\ LinkedinOf(live) = <<"linkedin.com/in/a">>
    /\ live.attendees[1].scrapingStatus = "completed"
    /\ calls["linkedin.com/in/a"] = 1

\* C18: an item whose identity is absent or malformed (a non-empty string that
\* is no profile URL of the provider) has fetchStatus = NotApplicable from its
\* ingestion on, causes no request, and is not counted in
\* fetchProgress.pending.
C18_MalformedNotApplicable ==
    /\ \A i \in Items :
          ~IsLinkedInUrl(live.attendees[i].linkedin)
              => live.attendees[i].scrapingStatus = "no_linkedin"
    /\ \A u \in LinkedinValues : ~IsLinkedInUrl(u) => calls[u] = 0
    /\ fetchProgress.pending <= Cardinality(ValidOf(live))

\* the request in flight of the fetch run fails: the run moves on and nothing
\* is written to the cache
FetchFailureStep ==
    /\ scrape.phase = "await"
    /\ scrape' # scrape
    /\ cache' = cache

\* a call in flight of the score run returns
ScoreReturnStep ==
    /\ scoring.phase = "await"
    /\ scoring' # scoring
    /\ scrape' = scrape
    /\ posts' = posts

\* the position of the call that returns in a ScoreReturnStep
ReturnedPosition ==
    IF Cardinality(scoring.inflight) = 1
    THEN CHOOSE pos \in scoring.inflight : TRUE
    ELSE CHOOSE pos \in scoring.inflight : pos \notin scoring'.inflight

\* C19: a provider error or timeout on one item sets only that item's status
\* to Failed, with an error string, and never halts the batch.  Fetch Stage: the
\* run goes on to its next item or ends normally, the record of the item whose
\* request failed becomes Failed with an error string and no other record
\* changes.  Score Stage: the record of the item whose call returned is
\* Completed or Failed with an error string, no other record changes and the
\* run goes on.
C19_ItemFailureIsolated ==
    [][/\ FetchFailureStep =>
              LET url == scrape.validUrls[scrape.i]
                  item == scrape.linkedinUrls[FindUrlItem(scrape.linkedinUrls, url)]
                  before == heap[dataStore.data].attendees
                  after == heap'[dataStore.data].attendees
              IN /\ scrape'.phase \in {"sleep", "done"}
                 /\ item.index <= Len(before)
                 /\ before[item.index].linkedin = url
                 /\ after[item.index].scrapingStatus = "failed"
                 /\ Truthy(after[item.index].scrapingError)
                 /\ \A j \in 1..Len(before) :
                        j # item.index =>
                            /\ after[j].scrapingStatus = before[j].scrapingStatus
                            /\ after[j].scrapingError = before[j].scrapingError
                            /\ after[j].linkedinData = before[j].linkedinData
       /\ (ScoreReturnStep /\ scoring.ref = dataStore.data) =>
              LET index == scoring.attendeesToScore[ReturnedPosition].index
                  before == heap[scoring.ref].attendees
                  after == heap'[scoring.ref].attendees
              IN /\ scoring'.phase \in {"await", "done"}
                 /\ \/ after[index].scoringStatus = "completed"
                    \/ /\ after[index].scoringStatus = "failed"
                       /\ Truthy(after[index].scoringError)
                 /\ \A j \in 1..Len(before) :
                        j # index =>
                            /\ after[j].scoringStatus = before[j].scoringStatus
                            /\ after[j].scoringError = before[j].scoringError
                            /\ after[j].overall_score = before[j].overall_score]_vars

\* the Fetch Stage is entered without its credential
FetchStageWithoutKey ==
    /\ FetchRunStarts
    /\ ~env.SCRAPINGDOG_API_KEY

\* the Score Stage is entered without its credential
ScoreStageWithoutKey ==
    /\ ScoreRunStarts
    /\ ~env.OPENAI_API_KEY

\* C20: a stage entered without its credential makes no provider call and
\* moves every item that is Pending in that stage to Failed (Fetch Stage) or
\* Skipped (Score Stage) with one shared diagnostic; the stage's pending
\* counter is 0 afterwards.
C20_MissingCredentialShortCircuit ==
    [][/\ FetchStageWithoutKey =>
              LET data == heap'[dataStore'.data]
              IN /\ calls' = calls
                 /\ scrape'.phase = "nokey"
                 /\ \A k \in 1..Len(data.attendees) :
                        IF Truthy(data.attendees[k].linkedin)
                        THEN /\ data.attendees[k].scrapingStatus = "failed"
                             /\ data.attendees[k].scrapingError = "API key not configured"
                        ELSE data.attendees[k].scrapingStatus = "no_linkedin"
                 /\ data.scrapingProgress.pending = 0
       /\ ScoreStageWithoutKey =>
              LET data == heap'[dataStore'.data]
                  old == heap[dataStore'.data]
              IN /\ scoring'.phase = "nokey"
                 /\ scoring'.inflight = {}
                 /\ \A k \in 1..Len(data.attendees) :
                        (posts' # posts \/ old.attendees[k].scoringStatus = "pending")
                            => /\ data.attendees[k].scoringStatus = "skipped"
                               /\ data.attendees[k].scoringError =
                                      "OpenAI API key not configured"
                 /\ \A k \in 1..Len(data.attendees) :
                        data.attendees[k].scoringStatus # "pending"
                 /\ data.scoringProgress.pending = 0]_vars

\* C20 witness: without the scoring credential, a batch with a fetched profile,
\* a failed request and an attendee without identity has gone through the
\* Score Stage
C20_Witness ==
    /\ ~env.OPENAI_API_KEY
    /\ scoring.phase = "nokey"
    /\ scoring.ref = dataStore.data
    /\ Len(live.attendees) = 3
    /\ fetchProgress.completed = 1
    /\ fetchProgress.failed = 1
    /\ \A i \in Items : live.attendees[i].scoringStatus = "skipped"

\* C21: within one snapshot an item that has reached fetchStatus = Failed keeps
\* that status and its error string: no step other than an ingestion changes
\* the status or the error of a Failed record of the live snapshot.
C21_FailedStaysFailed ==
    [][(posts' = posts /\ dataStore'.data = dataStore.data) =>
          \A i \in Items :
              live.attendees[i].scrapingStatus = "failed" =>
                  /\ heap'[dataStore.data].attendees[i].scrapingStatus = "failed"
                  /\ heap'[dataStore.data].attendees[i].scrapingError
                         = live.attendees[i].scrapingError]_vars

\* an ingestion request without attendees array is answered
InvalidRequestStep ==
    /\ posts' = posts + 1
    /\ response'.status = 400

\* C22: an ingestion request whose body has no attendees array is rejected
\* with an error before any stage starts: the snapshot, the counters, both
\* guards and the runs in progress are unchanged and no provider call is made.
C22_InvalidRequestRejected ==
    [][InvalidRequestStep =>
          /\ dataStore' = dataStore
          /\ heap' = heap
          /\ scrape' = scrape
          /\ scoring' = scoring
          /\ calls' = calls
          /\ cache' = cache]_vars

\* C22 witness: a request without attendees array was rejected while the fetch
\* run of the first batch had a request in flight
C22_Witness ==
    /\ posts = 2
    /\ response.status = 400
    /\ dataStore.data = 1
    /\ scrape.phase = "await"
    /\ scrape.ref = 1
    /\ dataStore.isScrapingInProgress
    /\ fetchProgress.pending > 0

\* C23: a scoring-provider response that is missing required fields, or that
\* fails schema validation, results in scoreStatus = Failed with scoreError
\* set and never in scoreStatus = Completed: every Completed record has the
\* evaluation's overall score.
C23_CompletedHasEvaluation ==
    \A r \in {dataStore.data, scoring.ref} :
        \A i \in 1..Len(heap[r].attendees) :
            heap[r].attendees[i].scoringStatus = "completed"
                => heap[r].attendees[i].overall_score # 0

\* C24: the snapshot of an ingestion is persisted, so the restart that follows
\* an ingestion restores a snapshot with that batch's attendees and not an
\* empty or older one.
C24_RestartRestoresBatch ==
    [][(Restart /\ dataStore.data # 0 /\ Len(live.attendees) > 0) =>
          /\ "attendees" \in DOMAIN heap'[dataStore'.data]
          /\ Len(heap'[dataStore'.data].attendees) = Len(live.attendees)
          /\ \A i \in Items :
                heap'[dataStore'.data].attendees[i].linkedin
                    = live.attendees[i].linkedin]_vars

\* the file of temp/ with the greatest timestamp is f
Newest(f) == f \in temp /\ \A g \in temp : f.timestamp >= g.timestamp

\* C25: at process start the store loads the record with the greatest
\* timestamp; it starts with the empty snapshot when there is no record and
\* when the newest record is unreadable or corrupt (its text does not parse,
\* or parses to something that is no snapshot).
C25_StartupLoadsNewestOrEmpty ==
    [][Restart =>
          /\ temp = {} => heap'[dataStore'.data] = EmptyData
          /\ \A f \in temp :
                Newest(f) =>
                    IF f.parses /\ "attendees" \in DOMAIN f.value
                    THEN heap'[dataStore'.data] = f.value
                    ELSE heap'[dataStore'.data] = EmptyData]_vars

\* the fetch fields of record i of the live snapshot change in this step
FetchFieldsChange(i) ==
    \/ heap'[dataStore.data].attendees[i].scrapingStatus # live.attendees[i].scrapingStatus
    \/ heap'[dataStore.data].attendees[i].linkedinData # live.attendees[i].linkedinData
    \/ heap'[dataStore.data].attendees[i].scrapingError # live.attendees[i].scrapingError

\* C26: a polling read never observes a torn update: the step that changes a
\* record's fetch status, payload or error also decrements pending and
\* increments the counter of the record's new status, and sets the payload
\* (Completed) or the error (Failed); no state lies in between.
C26_CompletionIsOneStep ==
    [][(posts' = posts /\ dataStore'.data = dataStore.data) =>
          \A i \in Items :
              FetchFieldsChange(i) =>
                  LET attendee == heap'[dataStore.data].attendees[i]
                      progress == heap'[dataStore.data].scrapingProgress
                  IN /\ progress.pending = fetchProgress.pending - 1
                     /\ \/ /\ attendee.scrapingStatus = "completed"
                           /\ attendee.linkedinData # NULL
                           /\ progress.completed = fetchProgress.completed + 1
                           /\ progress.failed = fetchProgress.failed
                        \/ /\ attendee.scrapingStatus = "failed"
                           /\ attendee.scrapingError # NULL
                           /\ progress.failed = fetchProgress.failed + 1
                           /\ progress.completed = fetchProgress.completed]_vars

\* a fetch run is between two items: one record is Completed with its payload,
\* another is still Pending, and the counters say so
C26_Witness ==
    /\ scrape.phase \in {"sleep", "await"}
    /\ scrape.ref = dataStore.data
    /\ fetchProgress.completed = 1
    /\ fetchProgress.pending = 1
    /\ \E i \in Items : /\ live.attendees[i].scrapingStatus = "completed"
                         /\ live.attendees[i].linkedinData # NULL
    /\ \E i \in Items : live.attendees[i].scrapingStatus = "pending"

\* the attendee records of every snapshot in memory
Records ==
    UNION {{heap[r].attendees[i] : i \in 1..Len(heap[r].attendees)} : r \in Refs}

\* C27: in every reachable state and for every record, scoreError is present
\* if and only if scoreStatus = Failed; a Skipped item carries none.
C27_ScoreErrorIffFailed ==
    \A a \in Records : a.scoringError # NULL <=> a.scoringStatus = "failed"

\* C27, amended: scoreError is present if and only if the record is Failed, or
\* it was Skipped by the missing-credential short-circuit and carries that
\* diagnostic; a record Skipped for having no fetched profile carries none.
C27_ScoreErrorIffFailedOrNoKey ==
    \A a \in Records :
        /\ a.scoringStatus = "failed" => a.scoringError # NULL
        /\ a.scoringStatus \in {"pending", "completed"} => a.scoringError = NULL
        /\ a.scoringStatus = "skipped" =>
              IF env.OPENAI_API_KEY
              THEN a.scoringError = NULL
              ELSE a.scoringError = "OpenAI API key not configured"

\* the score run of a fetched batch found no credential: a record with a
\* fetched profile is Skipped and carries the shared diagnostic
C27_Witness ==
    /\ scoring.phase = "nokey"
    /\ \E a \in Records : /\ a.scrapingStatus = "completed"
                           /\ a.scoringStatus = "skipped"
                           /\ a.scoringError = "OpenAI API key not configured"

\* C28: in every reachable state and for every record, fetchError is present
\* if and only if fetchStatus = Failed, also when two attendees of a batch
\* share the identity and the two fetches of it end differently.
C28_FetchErrorIffFailed ==
    \A a \in Records : a.scrapingError # NULL <=> a.scrapingStatus = "failed"

\* the fetch run of the live batch has ended: every item was handled, or the
\* run was short-circuited
FetchRunEnded ==
    /\ scrape.phase \in {"done", "nokey", "nothing"}
    /\ scrape.ref = dataStore.data

\* C29: every fetch run that ends is followed by a Score Stage over the same
\* batch: once nothing is executing any more, no item of a batch whose fetch
\* run has ended is left with scoreStatus = Pending.
C29_ScoreFollowsFetch ==
    (Quiescent /\ FetchRunEnded) =>
        \A i \in Items : live.attendees[i].scoringStatus # "pending"

\* C30: the acknowledgment of an ingestion reports whether this request
\* dispatched a fetch run: linkedinScrapingStarted is true exactly then.
C30_AcknowledgmentTruthful ==
    [][(posts' = posts + 1 /\ response'.status = 200) =>
          (response'.linkedinScrapingStarted <=> FetchRunStarts)]_vars

\* the profile provider is sent a request for u in this step
ProviderCalled(u) == calls'[u] # calls[u]

C32_RetryBounded ==
    /\ retry.fetches <= retry.maxRetries
    /\ \A u \in DOMAIN calls : calls[u] <= retry.fetches
    /\ retry.phase = "sleep" =>
          /\ retry.attempt < retry.maxRetries
          /\ retry.fetches = retry.attempt
          /\ retry.delay = (2 ^ retry.attempt) * 1000
    /\ (retry.phase = "returned" /\ ~retry.result.success) =>
          /\ retry.fetches = retry.maxRetries
          /\ retry.result.error = "Failed after " \o ToString(retry.maxRetries)
                                       \o " retries: " \o retry.lastError

\* C32: the first successful attempt ends the operation with that result and
\* without a further attempt.
C32_FirstSuccessReturned ==
    (retry.phase = "await" /\ cache' # cache) =>
        /\ retry'.phase = "returned"
        /\ retry'.result.success
        /\ retry'.result.data = cache'[retry.url]
        /\ retry'.fetches = retry.fetches
        /\ calls' = calls

\* C32: the explicit retry operation always terminates, within its bound of
\* attempts, with the first success or with the failure after the last attempt.
C32_RetryTerminates ==
    /\ []C32_RetryBounded
    /\ [][C32_FirstSuccessReturned]_vars
    /\ (retry.phase # "none") ~> (retry.phase = "returned")

\* three attempts were made with one backoff wait after each of the first two
\* and all failed: the failure is returned
C32_Witness ==
    /\ retry.phase = "returned"
    /\ ~retry.result.success
    /\ retry.maxRetries = 3
    /\ calls[retry.url] = 3
    /\ retry.result.error = "Failed after 3 retries: timeout of 30000ms exceeded"

\* a score run ends normally: scoreMultipleCandidatesParallel has returned
ScoreRunEnds ==
    /\ scoring' # scoring
    /\ scoring'.phase = "done"

\* C33: when a score run ends normally its guard is cleared and every item of
\* the run's batch has a terminal scoreStatus: the items with a fetched
\* profile are Completed or Failed, the others are Skipped, none is Pending.
\* (When the batch was superseded its snapshot is dropped with the run; then
\* the only items still Pending before the last step are those whose result
\* that step delivers.)
C33_RunEndsWithTerminalStatuses ==
    [][ScoreRunEnds =>
          /\ ~dataStore'.isScoringInProgress
          /\ scoring'.ref = dataStore'.data =>
                \A k \in 1..Len(heap'[scoring'.ref].attendees) :
                    LET a == heap'[scoring'.ref].attendees[k]
                    IN IF a.scrapingStatus = "completed"
                       THEN a.scoringStatus \in {"completed", "failed"}
                       ELSE a.scoringStatus = "skipped"
          /\ (scoring.phase = "await" /\ scoring'.ref # dataStore'.data) =>
                \A k \in 1..Len(heap[scoring.ref].attendees) :
                    heap[scoring.ref].attendees[k].scoringStatus = "pending" =>
                        \E pos \in scoring.inflight \cup Undispatched :
                            scoring.attendeesToScore[pos].index = k]_vars

\* a score run has ended over the live batch: one item scored, one whose
\* scoring failed, one without profile skipped
C33_Witness ==
    /\ scoring.phase = "done"
    /\ scoring.ref = dataStore.data
    /\ ~dataStore.isScoringInProgress
    /\ \E i \in Items : live.attendees[i].scoringStatus = "completed"
    /\ \E i \in Items : live.attendees[i].scoringStatus = "failed"
    /\ \E i \in Items : live.attendees[i].scoringStatus = "skipped"

\* C34: stage workers never replace the live snapshot: every setData of the
\* Fetch Stage and the Score Stage passes the object the store holds, so the
\* store's snapshot changes only in an ingestion, to that ingestion's batch,
\* and a superseded snapshot never comes back.
C34_OnlyIngestionReplaces ==
    [][dataStore'.data # dataStore.data =>
          /\ posts' = posts + 1
          /\ response'.status = 200
          /\ dataStore'.data = posts']_vars

\* a score run of a superseded batch is executing and one of its callbacks
\* has stored the snapshot after the ingestion: the newer batch is still live
C34_Witness ==
    /\ scoring.phase = "await"
    /\ scoring.ref = 1
    /\ dataStore.data = 2
    /\ scoreProgress.completed + scoreProgress.failed > 0

\* C35: between two ingestions the pipeline never adds, removes or reorders
\* attendee records and never changes a record's identity: in every step that
\* is no ingestion the sequence of identities of the live snapshot, and of the
\* snapshot a score run works on, stays as it is.
C35_IdentitiesStable ==
    [][posts' = posts =>
          /\ LinkedinOf(heap'[dataStore'.data]) = LinkedinOf(live)
          /\ (ScoreRunExecuting /\ scoring'.phase = "await") =>
                LinkedinOf(heap'[scoring'.ref]) = LinkedinOf(heap[scoring.ref])]_vars

\* both stages have run over the three-attendee batch, which is in its
\* ingested order
C35_Witness ==
    /\ scrape.phase = "done"
    /\ scoring.phase = "done"
    /\ scoring.ref = dataStore.data
    /\ LinkedinOf(live) = <<"linkedin.com/in/a", "linkedin.com/in/b", "">>
    /\ live.attendees[1].scoringStatus = "completed"
    /\ live.attendees[2].scrapingStatus = "failed"

\* the number of records of the live snapshot with fetch status st
FetchStatusCount(st) ==
    Cardinality({i \in Items : live.attendees[i].scrapingStatus = st})

\* C36: in every reachable state the fetch counters agree with the records of
\* the live snapshot: completed, failed and pending are the numbers of records
\* whose fetchStatus is Completed, Failed and Pending, also for batches in
\* which two attendees share an identity.
C36_CountersMatchRecords ==
    /\ fetchProgress.completed = FetchStatusCount("completed")
    /\ fetchProgress.failed = FetchStatusCount("failed")
    /\ fetchProgress.pending = FetchStatusCount("pending")

\* the positions of linkedinUrls that scrapeMultipleProfiles keeps, in order
ValidPositions ==
    Ascending({j \in 1..Len(scrape.linkedinUrls) :
                  /\ Truthy(scrape.linkedinUrls[j].url)
                  /\ IsLinkedInUrl(scrape.linkedinUrls[j].url)})

\* the attendee whose profile the request in flight is for
OwnIndex == scrape.linkedinUrls[ValidPositions[scrape.i]].index

\* the provider answers the request in flight of a run over the live batch
FetchAnswered ==
    /\ scrape.phase = "await"
    /\ scrape.ref = dataStore.data
    /\ scrape' # scrape
    /\ posts' = posts

\* C37: the fetch result obtained for one attendee is applied to that
\* attendee's record and to no other, also when another attendee of the batch
\* has the same identity URL: the answer to the request made for the attendee
\* at index i sets the fetch fields of record i and of no other record.
C37_ResultToOwnRecord ==
    [][FetchAnswered =>
          /\ heap'[dataStore.data].attendees[OwnIndex].scrapingStatus
                \in {"completed", "failed"}
          /\ \A k \in Items : FetchFieldsChange(k) => k = OwnIndex]_vars

\* a file written by a match-face request: the attendees with a photo and
\* nothing else
PhotoFile(f) == f.parses /\ DOMAIN f.value = {"attendees"}

\* C38: the snapshot restored at process start is a full snapshot; a file
\* attendees_<timestamp>.json left behind by an interrupted match-face
\* request, which holds only the attendees with a photo and no progress
\* counters, is never loaded as the snapshot.
C38_LeftoverNeverLoaded ==
    [][Restart =>
          \A f \in temp : PhotoFile(f) => heap'[dataStore'.data] # f.value]_vars

\* the request in flight is answered with a failure: the callback counts it
FetchAnsweredWithFailure ==
    /\ scrape.phase = "await"
    /\ scrape' # scrape
    /\ posts' = posts
    /\ heap'[dataStore.data].scrapingProgress.failed > fetchProgress.failed

\* the one-second wait ends and the run moves to its next item
FetchRunMovesOn ==
    /\ scrape.phase = "sleep"
    /\ scrape' # scrape
    /\ posts' = posts

\* C39: the Fetch Stage writes to the cache only after a successful provider
\* response: the cache changes only in the step that answers a request, for
\* the identity requested, and not when the answer is a failure or timeout;
\* so a fetch of an identity without entry calls the provider again.
C39_CacheWrittenOnSuccessOnly ==
    [][/\ cache' # cache =>
             /\ scrape.phase = "await"
             /\ posts' = posts
             /\ heap'[dataStore.data].scrapingProgress.failed = fetchProgress.failed
             /\ \A u \in DOMAIN cache :
                   cache'[u] # cache[u] =>
                       /\ u = scrape.validUrls[scrape.i]
                       /\ cache[u] = NULL
                       /\ cache'[u] \in Profiles
       /\ FetchAnsweredWithFailure => cache' = cache
       /\ FetchRunMovesOn =>
             LET u == scrape.validUrls[scrape.i + 1]
             IN cache[u] = NULL => calls'[u] = calls[u] + 1]_vars

\* the first request for an identity failed, nothing was cached, and the
\* identity is being requested a second time
C39_Witness ==
    /\ scrape.phase = "await"
    /\ calls[scrape.validUrls[scrape.i]] = 2
    /\ cache[scrape.validUrls[scrape.i]] = NULL
    /\ \E a \in Records : /\ a.linkedin = scrape.validUrls[scrape.i]
                           /\ a.scrapingStatus = "failed"

====
